---- MODULE Spec2Model ----
(***************************************************************************)
(* A model of src/app.py: the item store, the comparison log, the rank     *)
(* calculation and the five request handlers of the Flask application.     *)
(*                                                                         *)
(* Text (form fields, item names) is a sequence of one-character strings,  *)
(* so that str.strip() and int() are computed character by character.      *)
(* A form is a record whose domain is the set of fields it carries; a      *)
(* field that is not in the domain is missing from the request.            *)
(***************************************************************************)
EXTENDS Integers, Sequences, FiniteSets, TLC

VARIABLES
    initialized,   \* TRUE iff `flask init-db` has created the two tables
    items,         \* rows of items(id, name), in rowid order
    comparisons,   \* rows of comparisons(item1_id, item2_id, score), in rowid order
    request,       \* the request handled last: [method, path, form]
    response       \* what its handler returned: [status, body, context]

vars == <<initialized, items, comparisons, request, response>>

(***************************************************************************)
(* Bounds of the model.                                                    *)
(***************************************************************************)
MaxItems == 3
MaxLog == 2
MaxScenarioLog == 3

(***************************************************************************)
(* Text.                                                                   *)
(***************************************************************************)
\* The characters of the model, in ASCII order.
Alphabet == <<" ", "+", "-", ".", "0", "1", "2", "3", "4", "5", "6", "7", "8", "9",
              "X", "Y", "Z", "a", "b", "x">>

Code(c) == CHOOSE i \in 1..Len(Alphabet) : Alphabet[i] = c

Whitespace == {" "}

Digit == {"0", "1", "2", "3", "4", "5", "6", "7", "8", "9"}

DigitValue(c) == Code(c) - Code("0")

RECURSIVE LStrip(_)
LStrip(s) == IF s # <<>> /\ Head(s) \in Whitespace THEN LStrip(Tail(s)) ELSE s

RECURSIVE RStrip(_)
RStrip(s) ==
    IF s # <<>> /\ s[Len(s)] \in Whitespace THEN RStrip(SubSeq(s, 1, Len(s) - 1)) ELSE s

\* str.strip()
Strip(s) == RStrip(LStrip(s))

\* The digits of an integer literal after its sign, and whether text is one:
\* Python's int(str) accepts surrounding whitespace and one leading sign.
Unsigned(s) == IF s # <<>> /\ Head(s) \in {"+", "-"} THEN Tail(s) ELSE s

IsIntLiteral(s) ==
    LET u == Unsigned(Strip(s))
    IN  u # <<>> /\ \A i \in 1..Len(u) : u[i] \in Digit

RECURSIVE DigitsValue(_)
DigitsValue(u) ==
    IF u = <<>> THEN 0
    ELSE 10 * DigitsValue(SubSeq(u, 1, Len(u) - 1)) + DigitValue(u[Len(u)])

\* int(text), defined where IsIntLiteral(text)
PyInt(s) ==
    LET t == Strip(s)
    IN  IF t # <<>> /\ Head(t) = "-" THEN 0 - DigitsValue(Unsigned(t))
        ELSE DigitsValue(Unsigned(t))

(***************************************************************************)
(* The store.  A value of a comparisons column is an SQLite value: the     *)
(* form fields reach the INSERT as text, and a column of INTEGER affinity  *)
(* stores text that is an integer literal as an integer and any other text *)
(* as text.                                                                *)
(***************************************************************************)
SqlInteger(n) == [type |-> "integer", i |-> n, s |-> <<>>]

SqlText(s) == [type |-> "text", i |-> 0, s |-> s]

IntegerAffinity(text) ==
    IF IsIntLiteral(text) THEN SqlInteger(PyInt(text)) ELSE SqlText(text)

\* value = ? with an integer parameter
SqlEqInt(v, n) == v.type = "integer" /\ v.i = n

\* text < text, bytewise
RECURSIVE TextLess(_, _)
TextLess(s, t) ==
    IF t = <<>> THEN FALSE
    ELSE IF s = <<>> THEN TRUE
    ELSE IF Head(s) # Head(t) THEN Code(Head(s)) < Code(Head(t))
    ELSE TextLess(Tail(s), Tail(t))

\* the order of ORDER BY: integers before text
SqlLess(v, w) ==
    IF v.type = "integer"
    THEN (w.type = "text" \/ v.i < w.i)
    ELSE (w.type = "text" /\ TextLess(v.s, w.s))

\* items.id INTEGER PRIMARY KEY: one more than the largest id
RECURSIVE MaxId(_)
MaxId(rows) ==
    IF rows = <<>> THEN 0
    ELSE LET m == MaxId(Tail(rows))
         IN  IF Head(rows).id > m THEN Head(rows).id ELSE m

\* INSERT INTO items (name) VALUES (?)
InsertItem(rows, name) == Append(rows, [id |-> MaxId(rows) + 1, name |-> name])

\* INSERT INTO comparisons (item1_id, item2_id, score) VALUES (?, ?, ?)
InsertComparisonReplacing(rows, item1_id, item2_id, preference) ==
    <<[item1_id |-> IntegerAffinity(item1_id), item2_id |-> IntegerAffinity(item2_id),
       score |-> preference]>>
InsertComparison(rows, item1_id, item2_id, preference) ==
    Append(rows, [item1_id |-> IntegerAffinity(item1_id),
                  item2_id |-> IntegerAffinity(item2_id),
                  score |-> preference])

(***************************************************************************)
(* Responses.                                                              *)
(***************************************************************************)
NoContext == [items |-> <<>>, comparisons |-> <<>>]

\* redirect(url_for('index'))
Redirect == [status |-> 302, body |-> "redirect /", context |-> NoContext]

\* return "text" or return "text", 500
Text(body, status) == [status |-> status, body |-> body, context |-> NoContext]

\* render_template(name, ...)
Template(name, its_items, its_comparisons) ==
    [status |-> 200, body |-> name,
     context |-> [items |-> its_items, comparisons |-> its_comparisons]]

\* an exception that leaves the view function: Flask's generic error page
UnhandledException ==
    [status |-> 500, body |-> "Internal Server Error", context |-> NoContext]

(***************************************************************************)
(* calculate_relative_rank                                                 *)
(***************************************************************************)
\* int(value) of a stored value raises ValueError on text that is no integer
IntRaises(v) == v.type # "integer"

\* The loop over the fetched rows; [raised, total].
RECURSIVE RankLoop(_, _, _)
RankLoop(rows, item_id_int, total_score) ==
    IF rows = <<>> THEN [raised |-> FALSE, total |-> total_score]
    ELSE LET comparison == Head(rows)
         IN  IF IntRaises(comparison.item1_id) \/ IntRaises(comparison.item2_id)
             THEN [raised |-> TRUE, total |-> total_score]
             ELSE IF comparison.item1_id.i = item_id_int
             THEN RankLoop(Tail(rows), item_id_int, total_score + comparison.score)
             ELSE IF comparison.item2_id.i = item_id_int
             THEN RankLoop(Tail(rows), item_id_int, total_score - comparison.score)
             ELSE RankLoop(Tail(rows), item_id_int, total_score)

RECURSIVE RankLoopAddsBoth(_, _, _)
RankLoopAddsBoth(rows, item_id_int, total_score) ==
    IF rows = <<>> THEN [raised |-> FALSE, total |-> total_score]
    ELSE LET comparison == Head(rows)
         IN  IF IntRaises(comparison.item1_id) \/ IntRaises(comparison.item2_id)
             THEN [raised |-> TRUE, total |-> total_score]
             ELSE RankLoopAddsBoth(Tail(rows), item_id_int, total_score + comparison.score)

\* SELECT score, item1_id, item2_id FROM comparisons WHERE item1_id = ? OR item2_id = ?
ComparisonsForItem1(rows, item_id_int) ==
    SelectSeq(rows, LAMBDA c : SqlEqInt(c.item1_id, item_id_int))
ComparisonsFor(rows, item_id_int) ==
    SelectSeq(rows, LAMBDA c : SqlEqInt(c.item1_id, item_id_int)
                               \/ SqlEqInt(c.item2_id, item_id_int))

RankOfUnsigned(is_initialized, rows, item_id) ==
    IF ~is_initialized THEN 0
    ELSE LET done == RankLoopAddsBoth(ComparisonsFor(rows, item_id), item_id, 0)
         IN  IF done.raised THEN 0 ELSE done.total

RankOf(is_initialized, rows, item_id) ==
    IF ~is_initialized THEN 0
    ELSE LET done == RankLoop(ComparisonsFor(rows, item_id), item_id, 0)
         IN  IF done.raised THEN 0 ELSE done.total

calculate_relative_rank(item_id) == RankOf(initialized, comparisons, item_id)

(***************************************************************************)
(* GET /: the ranked listing.                                              *)
(***************************************************************************)
\* ranked_items before the sort: one entry per fetched item, in fetch order
RankedItems(rows) ==
    [k \in 1..Len(rows) |->
        [id |-> rows[k].id, name |-> rows[k].name,
         rank |-> calculate_relative_rank(rows[k].id)]]

\* list.sort(key=rank, reverse=True) is stable: an entry goes behind every
\* entry of the same or a higher rank that came before it.
RECURSIVE InsertByRank(_, _)
InsertByRank(sorted, x) ==
    IF sorted = <<>> THEN <<x>>
    ELSE IF Head(sorted).rank >= x.rank
         THEN <<Head(sorted)>> \o InsertByRank(Tail(sorted), x)
         ELSE <<x>> \o sorted

RECURSIVE InsertByRankUnstable(_, _)
InsertByRankUnstable(sorted, x) ==
    IF sorted = <<>> THEN <<x>>
    ELSE IF Head(sorted).rank > x.rank
         THEN <<Head(sorted)>> \o InsertByRankUnstable(Tail(sorted), x)
         ELSE <<x>> \o sorted

RECURSIVE SortFrom(_, _)
SortFrom(sorted, rest) ==
    IF rest = <<>> THEN sorted
    ELSE SortFrom(InsertByRank(sorted, Head(rest)), Tail(rest))

RECURSIVE SortFromUnstable(_, _)
SortFromUnstable(sorted, rest) ==
    IF rest = <<>> THEN sorted
    ELSE SortFromUnstable(InsertByRankUnstable(sorted, Head(rest)), Tail(rest))

\* sorted(ascending)[::-1], which reverses the entries of equal rank
SortReversed(ranked_items) == SortFromUnstable(<<>>, ranked_items)
SortByRankDescending(ranked_items) == SortFrom(<<>>, ranked_items)

(***************************************************************************)
(* GET /database: the two ORDER BY queries.                                *)
(***************************************************************************)
ComparisonBefore(c, d) ==
    \/ SqlLess(c.item1_id, d.item1_id)
    \/ c.item1_id = d.item1_id /\ SqlLess(c.item2_id, d.item2_id)

RECURSIVE InsertComparisonOrdered(_, _)
InsertComparisonOrdered(sorted, x) ==
    IF sorted = <<>> THEN <<x>>
    ELSE IF ComparisonBefore(x, Head(sorted)) THEN <<x>> \o sorted
    ELSE <<Head(sorted)>> \o InsertComparisonOrdered(Tail(sorted), x)

\* SELECT item1_id, item2_id, score FROM comparisons ORDER BY item1_id, item2_id
RECURSIVE OrderComparisons(_)
OrderComparisons(rows) ==
    IF rows = <<>> THEN <<>>
    ELSE InsertComparisonOrdered(OrderComparisons(SubSeq(rows, 1, Len(rows) - 1)),
                                 rows[Len(rows)])

RECURSIVE InsertItemOrdered(_, _)
InsertItemOrdered(sorted, x) ==
    IF sorted = <<>> THEN <<x>>
    ELSE IF x.id < Head(sorted).id THEN <<x>> \o sorted
    ELSE <<Head(sorted)>> \o InsertItemOrdered(Tail(sorted), x)

\* SELECT id, name FROM items ORDER BY id
RECURSIVE OrderItems(_)
OrderItems(rows) ==
    IF rows = <<>> THEN <<>>
    ELSE InsertItemOrdered(OrderItems(SubSeq(rows, 1, Len(rows) - 1)), rows[Len(rows)])

(***************************************************************************)
(* GET /compare: what ORDER BY RANDOM() LIMIT 2 may fetch.                 *)
(***************************************************************************)
RandomLimit2WithRepeats(rows) ==
    IF Len(rows) >= 2
    THEN {<<rows[i], rows[j]>> : i \in 1..Len(rows), j \in 1..Len(rows)}
    ELSE {rows}
RandomLimit2(rows) ==
    IF Len(rows) >= 2
    THEN {<<rows[p[1]], rows[p[2]]>> :
             p \in {q \in (1..Len(rows)) \X (1..Len(rows)) : q[1] # q[2]}}
    ELSE {rows}

(***************************************************************************)
(* The request handlers.                                                   *)
(***************************************************************************)
NoForm == <<>>

Request(method, path, form) == [method |-> method, path |-> path, form |-> form]

\* POST /: item_name and item_name.strip()
ItemNameAcceptedUnstripped(form) ==
    "item_name" \in DOMAIN form /\ form.item_name # <<>>
ItemNameAccepted(form) ==
    /\ "item_name" \in DOMAIN form
    /\ form.item_name # <<>>
    /\ Strip(form.item_name) # <<>>

\* the name the INSERT is given
ItemNameVerbatim(item_name) == item_name
ItemNameToStore(item_name) == Strip(item_name)

index_POST(form) ==
    /\ request' = Request("POST", "/", form)
    /\ IF ItemNameAccepted(form)
       THEN IF initialized
            THEN /\ items' = InsertItem(items, ItemNameToStore(form.item_name))
                 /\ response' = Redirect
            ELSE /\ items' = items
                 /\ response' = Text("Database error: no such table: items. Did you run 'flask init-db'?", 500)
       ELSE /\ items' = items
            /\ response' = Redirect
    /\ UNCHANGED <<initialized, comparisons>>

index_GET ==
    /\ request' = Request("GET", "/", NoForm)
    /\ response' = IF initialized
                   THEN Template("index.html", SortByRankDescending(RankedItems(items)), <<>>)
                   ELSE Text("Database not initialized. Run 'flask init-db' first.", 500)
    /\ UNCHANGED <<initialized, items, comparisons>>

\* the two fetched rows are handed to compare.html as item1 and item2
CompareResponse(fetched, rows) ==
    IF Len(fetched) = 2 THEN Template("compare.html", fetched, <<>>)
    ELSE IF Len(rows) < 2
         THEN Text("Not enough items in the database to compare (need at least 2).", 200)
         ELSE Text("Could not fetch two distinct items.", 200)

compare_items ==
    /\ request' = Request("GET", "/compare", NoForm)
    /\ IF initialized
       THEN \E fetched \in RandomLimit2(items) : response' = CompareResponse(fetched, items)
       ELSE response' = Text("Database not initialized. Run 'flask init-db' first.", 500)
    /\ UNCHANGED <<initialized, items, comparisons>>

\* request.form[...] raises KeyError, int(...) raises ValueError
ComparisonFormInvalidUnparsed(form) ==
    \/ "item1_id" \notin DOMAIN form
    \/ "item2_id" \notin DOMAIN form
    \/ "preference" \notin DOMAIN form
ComparisonFormInvalid(form) ==
    \/ "item1_id" \notin DOMAIN form
    \/ "item2_id" \notin DOMAIN form
    \/ "preference" \notin DOMAIN form
    \/ ~IsIntLiteral(form.preference)

\* except (KeyError, ValueError): log, roll back, fall through to the last line
InvalidFormNoRedirect == Text("", 200)
InvalidFormResponse == Redirect

record_comparison(form) ==
    /\ request' = Request("POST", "/record_comparison", form)
    /\ IF ComparisonFormInvalid(form)
       THEN /\ comparisons' = comparisons
            /\ response' = InvalidFormResponse
       ELSE IF initialized
            THEN /\ comparisons' = InsertComparison(comparisons, form.item1_id,
                                                    form.item2_id, PyInt(form.preference))
                 /\ response' = Redirect
            ELSE /\ comparisons' = comparisons
                 /\ response' = Text("Database error: no such table: comparisons. Did you run 'flask init-db'?", 500)
    /\ UNCHANGED <<initialized, items>>

view_database ==
    /\ request' = Request("GET", "/database", NoForm)
    /\ response' = IF initialized
                   THEN Template("database_view.html", OrderItems(items),
                                 OrderComparisons(comparisons))
                   ELSE UnhandledException
    /\ UNCHANGED <<initialized, items, comparisons>>

(***************************************************************************)
(* The requests of the model.                                              *)
(***************************************************************************)
NameTexts == {<<>>, <<" ">>, <<"a">>, <<" ", "a">>, <<"a", " ">>}

ItemForms == {[item_name |-> t] : t \in NameTexts} \cup {NoForm}

IdTexts == {<<"1">>, <<"2">>, <<"x">>}

PreferenceTexts == {<<"2">>, <<"-", "1">>}

\* every form that record_comparison accepts
ValidForms == [item1_id : IdTexts, item2_id : IdTexts, preference : PreferenceTexts]

BaseForm == [item1_id |-> <<"1">>, item2_id |-> <<"2">>, preference |-> <<"2">>]

\* BaseForm with a preference that int() rejects
BadPreferenceTexts == {<<"x">>, <<>>, <<"1", ".", "5">>}

BadPreferenceForms == {[BaseForm EXCEPT !.preference = p] : p \in BadPreferenceTexts}

\* BaseForm with some of its fields missing
PartialForms ==
    {[f \in S |-> BaseForm[f]] : S \in (SUBSET DOMAIN BaseForm) \ {DOMAIN BaseForm}}

ComparisonForms == ValidForms \cup BadPreferenceForms \cup PartialForms

NoRequest == Request("", "", NoForm)

NoResponse == Text("", 0)

Init ==
    /\ initialized \in BOOLEAN
    /\ items = <<>>
    /\ comparisons = <<>>
    /\ request = NoRequest
    /\ response = NoResponse

Next ==
    \/ \E form \in ItemForms : Len(items) < MaxItems /\ index_POST(form)
    \/ index_GET
    \/ compare_items
    \/ \E form \in ComparisonForms : Len(comparisons) < MaxLog /\ record_comparison(form)
    \/ view_database

Spec == Init /\ [][Next]_vars

(***************************************************************************)
(* Scenario B of the specification: items "X", "Y", "Z" are created in     *)
(* this order and the comparisons (X,Y,3), (Y,Z,2), (X,Z,-1) are recorded, *)
(* in any order and any number of times, together with a comparison of an  *)
(* item with itself and one whose item2_id is no integer.                  *)
(***************************************************************************)
ScenarioNames == <<<<"X">>, <<"Y">>, <<"Z">>>>

ComparisonForm(item1_id, item2_id, preference) ==
    [item1_id |-> item1_id, item2_id |-> item2_id, preference |-> preference]

ScenarioB ==
    {ComparisonForm(<<"1">>, <<"2">>, <<"3">>),
     ComparisonForm(<<"2">>, <<"3">>, <<"2">>),
     ComparisonForm(<<"1">>, <<"3">>, <<"-", "1">>)}

SelfComparisonForm == ComparisonForm(<<"3">>, <<"3">>, <<"2">>)

NonIntegerIdForm == ComparisonForm(<<"2">>, <<"x">>, <<"3">>)

ScenarioForms == ScenarioB \cup {SelfComparisonForm, NonIntegerIdForm}

NextScenario ==
    \/ /\ Len(items) < Len(ScenarioNames)
       /\ index_POST([item_name |-> ScenarioNames[Len(items) + 1]])
    \/ index_GET
    \/ compare_items
    \/ \E form \in ScenarioForms :
          Len(comparisons) < MaxScenarioLog /\ record_comparison(form)
    \/ view_database

SpecScenario == Init /\ [][NextScenario]_vars

(***************************************************************************)
(* Notions the properties are stated with.                                 *)
(***************************************************************************)
RECURSIVE SumScores(_)
SumScores(rows) == IF rows = <<>> THEN 0 ELSE Head(rows).score + SumScores(Tail(rows))

\* the integer ids a rank is asked for: those of the items and one beyond
RankedIds == 1..(MaxItems + 1)

IsId(v, X) == v.type = "integer" /\ v.i = X

\* sum of score over the comparisons whose item1_id is X
FavouringSum(X) == SumScores(SelectSeq(comparisons, LAMBDA c : IsId(c.item1_id, X)))

\* sum of score over the comparisons whose item2_id is X
OpposingSum(X) == SumScores(SelectSeq(comparisons, LAMBDA c : IsId(c.item2_id, X)))

\* the same, without the comparisons of X with itself
OpposingSumOfOthers(X) ==
    SumScores(SelectSeq(comparisons,
                        LAMBDA c : IsId(c.item2_id, X) /\ ~IsId(c.item1_id, X)))

\* some comparison that mentions X holds an id that is no integer
MentionedWithNonInteger(X) ==
    \E k \in 1..Len(comparisons) :
        /\ IsId(comparisons[k].item1_id, X) \/ IsId(comparisons[k].item2_id, X)
        /\ comparisons[k].item1_id.type # "integer" \/ comparisons[k].item2_id.type # "integer"

Row(a, b, score) == [item1_id |-> SqlInteger(a), item2_id |-> SqlInteger(b), score |-> score]

\* the log holds exactly the three comparisons of Scenario B, in some order
ScenarioBRecorded ==
    /\ Len(comparisons) = 3
    /\ \A r \in {Row(1, 2, 3), Row(2, 3, 2), Row(1, 3, 0 - 1)} :
          \E k \in 1..3 : comparisons[k] = r

\* C1 as stated: for every log and every item X, calculate_relative_rank(X) is
\* the sum of score where item1_id is X minus the sum of score where item2_id is
\* X; after (X,Y,3), (Y,Z,2), (X,Z,-1) the ranks are X=2, Y=1, Z=-1.
C1_RankIsSignedSum ==
    /\ \A X \in RankedIds :
          calculate_relative_rank(X) = FavouringSum(X) - OpposingSum(X)
    /\ ScenarioBRecorded =>
          /\ calculate_relative_rank(1) = 2
          /\ calculate_relative_rank(2) = 1
          /\ calculate_relative_rank(3) = 0 - 1

\* the second half of C1 as stated, alone: it fails without any comparison of an
\* item with itself and without any id that is no integer
C1_ScenarioBAsStated ==
    ScenarioBRecorded =>
        /\ calculate_relative_rank(1) = 2
        /\ calculate_relative_rank(2) = 1
        /\ calculate_relative_rank(3) = 0 - 1

\* C1 amended: the rank of X is 0 when a comparison mentioning X holds an id that
\* is no integer; otherwise it is the sum of score where item1_id is X minus the
\* sum of score where item2_id is X and item1_id is not X (a comparison of X with
\* itself counts once, in favour). After Scenario B the ranks are X=2, Y=-1, Z=-1.
C1_RankIsSignedSumOfOthers ==
    /\ \A X \in RankedIds :
          calculate_relative_rank(X) =
              IF MentionedWithNonInteger(X) THEN 0
              ELSE FavouringSum(X) - OpposingSumOfOthers(X)
    /\ ScenarioBRecorded =>
          /\ calculate_relative_rank(1) = 2
          /\ calculate_relative_rank(2) = 0 - 1
          /\ calculate_relative_rank(3) = 0 - 1

C1_Witness ==
    /\ ScenarioBRecorded
    /\ Len(items) = 3
    /\ request.path = "/record_comparison"
    /\ calculate_relative_rank(2) = 0 - 1

(***************************************************************************)
(* The listing of GET /.                                                   *)
(***************************************************************************)
IsGet(path) == request.method = "GET" /\ request.path = path

IsPost(path) == request.method = "POST" /\ request.path = path

\* where the store returned the item with this id
StorePosition(id) == CHOOSE k \in 1..Len(items) : items[k].id = id

\* C2: the listing of GET / holds every stored item exactly once, with its
\* computed rank, no item before an item of strictly higher rank, and items of
\* equal rank in the order in which the store returned them.
C2_ListingRankedAndStable ==
    (IsGet("/") /\ initialized) =>
        /\ response.status = 200
        /\ response.body = "index.html"
        /\ LET listing == response.context.items
           IN  /\ Len(listing) = Len(items)
               /\ \A k \in 1..Len(items) :
                     /\ Cardinality({l \in 1..Len(listing) :
                                        listing[l].id = items[k].id}) = 1
                     /\ \E l \in 1..Len(listing) :
                           listing[l] = [id |-> items[k].id, name |-> items[k].name,
                                         rank |-> calculate_relative_rank(items[k].id)]
               /\ \A i \in 1..Len(listing) : \A j \in (i + 1)..Len(listing) :
                     /\ listing[i].rank >= listing[j].rank
                     /\ listing[i].rank = listing[j].rank =>
                           StorePosition(listing[i].id) < StorePosition(listing[j].id)

\* a listing of three items that is not in store order and holds a tie
C2_Witness ==
    /\ IsGet("/")
    /\ initialized
    /\ Len(items) = 3
    /\ LET listing == response.context.items
       IN  /\ Len(listing) = 3
           /\ listing[1].id # items[1].id
           /\ \E i \in 1..2 : listing[i].rank = listing[i + 1].rank

(***************************************************************************)
(* POST /record_comparison.                                                *)
(***************************************************************************)
\* the preference is no integer (or is not there), or an id field is missing
NotAComparison(form) ==
    \/ "item1_id" \notin DOMAIN form
    \/ "item2_id" \notin DOMAIN form
    \/ "preference" \notin DOMAIN form
    \/ LET p == form.preference
           digits == IF p # <<>> /\ p[1] \in {"+", "-"} THEN SubSeq(p, 2, Len(p)) ELSE p
       IN  digits = <<>> \/ \E i \in 1..Len(digits) : digits[i] \notin Digit

\* C3: a POST /record_comparison whose preference is no integer or whose
\* item1_id or item2_id is missing leaves the comparison log and the item
\* store as they were.
C3_InvalidComparisonAppendsNothing ==
    [][(request'.method = "POST" /\ request'.path = "/record_comparison"
        /\ NotAComparison(request'.form))
       => (comparisons' = comparisons /\ items' = items)]_vars

C3_Witness ==
    /\ IsPost("/record_comparison")
    /\ NotAComparison(request.form)
    /\ "preference" \in DOMAIN request.form
    /\ initialized
    /\ Len(comparisons) >= 1

\* C4 as stated: the redirect to / answers only the happy path; a request
\* whose validation fails ends without the redirect.
C4_NoRedirectWhenInvalid ==
    (IsPost("/record_comparison") /\ NotAComparison(request.form))
        => response.status # 302

\* C4 amended: the redirect to / answers the happy path (the row is the last
\* of the log) and also every request whose validation fails; only a request
\* that is valid and meets an uninitialized store is answered with status 500
\* and no redirect.
C4_RedirectUnlessDatabaseError ==
    IsPost("/record_comparison") =>
        /\ NotAComparison(request.form) => response = Redirect
        /\ (~NotAComparison(request.form) /\ initialized) =>
              /\ response = Redirect
              /\ comparisons # <<>>
              /\ comparisons[Len(comparisons)].score = PyInt(request.form.preference)
        /\ (~NotAComparison(request.form) /\ ~initialized) =>
              /\ response.status = 500
              /\ response # Redirect

C4_Witness ==
    /\ IsPost("/record_comparison")
    /\ NotAComparison(request.form)
    /\ initialized
    /\ response = Redirect

(***************************************************************************)
(* POST /.                                                                 *)
(***************************************************************************)
\* item_name is absent, empty, or whitespace only
BlankName(form) ==
    \/ "item_name" \notin DOMAIN form
    \/ \A i \in 1..Len(form.item_name) : form.item_name[i] \in Whitespace

\* t is n without its leading and trailing whitespace
IsTrimmed(t, n) ==
    \E i \in 1..Len(n) : \E j \in i..Len(n) :
        /\ t = SubSeq(n, i, j)
        /\ n[i] \notin Whitespace
        /\ n[j] \notin Whitespace
        /\ \A k \in 1..Len(n) : (k < i \/ k > j) => n[k] \in Whitespace

\* C5: a POST / whose item_name is absent, empty or whitespace only creates no
\* item and is answered with the redirect to /, not with an error.
C5_BlankNameCreatesNothing ==
    [][(request'.method = "POST" /\ request'.path = "/" /\ BlankName(request'.form))
       => (items' = items /\ comparisons' = comparisons /\ response' = Redirect)]_vars

C5_Witness ==
    /\ IsPost("/")
    /\ BlankName(request.form)
    /\ "item_name" \in DOMAIN request.form
    /\ request.form.item_name # <<>>
    /\ initialized
    /\ Len(items) >= 1
    /\ response = Redirect

\* C6 as stated: after an accepted POST / the store (and so the listing) holds
\* an item whose name is the submitted name, verbatim.
C6_NameStoredVerbatim ==
    [][(request'.method = "POST" /\ request'.path = "/" /\ ~BlankName(request'.form)
        /\ initialized)
       => \E k \in 1..Len(items') : items'[k].name = request'.form.item_name]_vars

\* C6 amended: an accepted POST / (name not blank, store initialized) appends
\* exactly one item, whose name is the submitted name without its leading and
\* trailing whitespace; and a GET / lists every stored item under its id with
\* the name it is stored with.
C6_NameStoredTrimmed ==
    [][/\ (request'.method = "POST" /\ request'.path = "/"
           /\ ~BlankName(request'.form) /\ initialized)
          => /\ Len(items') = Len(items) + 1
             /\ SubSeq(items', 1, Len(items)) = items
             /\ IsTrimmed(items'[Len(items')].name, request'.form.item_name)
       /\ (request'.method = "GET" /\ request'.path = "/" /\ initialized)
          => \A k \in 1..Len(items) :
                \E l \in 1..Len(response'.context.items) :
                    /\ response'.context.items[l].id = items[k].id
                    /\ response'.context.items[l].name = items[k].name]_vars

\* a name was submitted with whitespace around it and is stored without it
C6_Witness ==
    /\ IsPost("/")
    /\ ~BlankName(request.form)
    /\ initialized
    /\ Len(items) >= 2
    /\ items[Len(items)].name # request.form.item_name
    /\ IsTrimmed(items[Len(items)].name, request.form.item_name)

(***************************************************************************)
(* GET /compare.                                                           *)
(***************************************************************************)
\* C7: on an initialized store GET /compare answers "not enough items" when
\* the store holds 0 or 1 items, and otherwise presents exactly two stored
\* items with different ids; it never fails.
C7_CompareTwoDistinctOrInsufficient ==
    (IsGet("/compare") /\ initialized) =>
        /\ response.status = 200
        /\ IF Len(items) < 2
           THEN response.body = "Not enough items in the database to compare (need at least 2)."
           ELSE /\ response.body = "compare.html"
                /\ LET shown == response.context.items
                   IN  /\ Len(shown) = 2
                       /\ shown[1].id # shown[2].id
                       /\ \A i \in 1..2 : \E k \in 1..Len(items) : shown[i] = items[k]

C7_Witness ==
    /\ IsGet("/compare")
    /\ initialized
    /\ Len(items) = 3
    /\ response.body = "compare.html"
    /\ response.context.items[1].id > response.context.items[2].id

\* the other case of C7: a store of one item
C7_WitnessInsufficient ==
    /\ IsGet("/compare")
    /\ initialized
    /\ Len(items) = 1
    /\ response.body = "Not enough items in the database to compare (need at least 2)."

(***************************************************************************)
(* The store over time.                                                    *)
(***************************************************************************)
IsPrefix(s, t) == Len(s) <= Len(t) /\ SubSeq(t, 1, Len(s)) = s

\* C8: every request leaves every persisted item and comparison in place and
\* unchanged, and the GET requests leave both relations as they were.
C8_AppendOnly ==
    [][/\ IsPrefix(items, items')
       /\ IsPrefix(comparisons, comparisons')
       /\ request'.method = "GET" => (items' = items /\ comparisons' = comparisons)]_vars

C8_Witness ==
    /\ Len(items) >= 2
    /\ Len(comparisons) >= 2
    /\ IsGet("/database")
    /\ response.body = "database_view.html"

\* C9: no storage or validation error leaves a handler as an uncaught
\* exception, whatever the request and the state of the store.
C9_NoUncaughtException == response # UnhandledException

(***************************************************************************)
(* The ranks together.                                                     *)
(***************************************************************************)
RECURSIVE SumRanks(_, _, _)
SumRanks(is_initialized, log, rows) ==
    IF rows = <<>> THEN 0
    ELSE RankOf(is_initialized, log, Head(rows).id)
         + SumRanks(is_initialized, log, Tail(rows))

IsItemId(v, rows) == v.type = "integer" /\ \E k \in 1..Len(rows) : rows[k].id = v.i

\* every comparison references two different existing items with integer ids
AllBetweenTwoItems(log, rows) ==
    \A k \in 1..Len(log) :
        /\ IsItemId(log[k].item1_id, rows)
        /\ IsItemId(log[k].item2_id, rows)
        /\ log[k].item1_id # log[k].item2_id

\* C10: while every comparison references two different existing items with
\* integer ids the ranks of the stored items sum to 0, and recording (a,b,s)
\* raises rank(a) by s, lowers rank(b) by s and leaves every other rank alone.
C10_ZeroSum ==
    /\ [](AllBetweenTwoItems(comparisons, items)
            => SumRanks(initialized, comparisons, items) = 0)
    /\ [][(comparisons' # comparisons /\ AllBetweenTwoItems(comparisons', items'))
          => LET c == comparisons'[Len(comparisons')]
             IN  \A X \in RankedIds :
                    RankOf(initialized', comparisons', X) =
                        RankOf(initialized, comparisons, X)
                        + (IF X = c.item1_id.i THEN c.score
                           ELSE IF X = c.item2_id.i THEN 0 - c.score ELSE 0)]_vars

C10_Witness ==
    /\ AllBetweenTwoItems(comparisons, items)
    /\ Len(comparisons) = 2
    /\ IsPost("/record_comparison")
    /\ ~NotAComparison(request.form)
    /\ calculate_relative_rank(1) = 3
    /\ calculate_relative_rank(2) = 0 - 3

====
